---- MODULE Spec2Model ----
(***************************************************************************)
(* Model of src/Website review/frontend/src/App.js: the App component's    *)
(* state (url, loading, results, error), the handleAnalyze handler and the *)
(* handleDownloadPDF export (html2canvas capture, page slicing, pdf.save). *)
(*                                                                         *)
(* Lengths.  The export computes imgHeight = canvas.height * imgWidth /    *)
(* canvas.width in millimetres, a fraction.  Every length of one export    *)
(* (imgHeight, heightLeft, position, the page height) is kept here as its  *)
(* numerator over the common denominator canvas.width, so the comparisons  *)
(* and subtractions of the code are exact integer operations:              *)
(*   imgHeight  stands for  imgHeight  * canvas.width = canvas.height*210  *)
(*   pageHeight stands for  pageHeight * canvas.width = 297*canvas.width   *)
(*                                                                         *)
(* Scheduling.  JavaScript runs one callback at a time to completion.  The *)
(* body of the .then callback is split into steps (first page, one step    *)
(* per loop iteration, save) so that the loop can be observed; while the   *)
(* callback runs (cur # 0) no other handler is enabled.                    *)
(***************************************************************************)
EXTENDS Integers, Sequences, FiniteSets

\* ---------------------------------------------------------------- bounds
MaxExports == 2
MaxHeightUnits == 20

\* ------------------------------------------------------- program constants
imgWidth == 210
pageHeight == 297

\* ------------------------------------------------------------ input sets
Exports == 1..MaxExports
CanvasWidths == {35, 50, 70}
CanvasHeights == {11 * k : k \in 0..MaxHeightUnits}
Urls == {"", "site"}
Responses == {"r1", "r2"}
Null == "null"
ValidationMsg == "Please enter a website URL"
FailedMsg == "Failed to analyze website. Please try another URL."
NoCanvas == [width |-> 0, height |-> 0]

VARIABLES
    url, loading, results, error,   \* useState values of App
    inflight,                       \* axios.post calls not yet settled
    st, threw,                      \* per export invocation: stage, what threw
    captures, saves, alerts,        \* per export invocation: calls made
    cur, pc,                        \* the running .then callback and its position
    canvas, imgHeight, heightLeft, position,   \* its locals
    pages                           \* y of every addImage of the running callback

ui == <<url, loading, results, error, inflight>>
frame == <<cur, pc, canvas, imgHeight, heightLeft, position, pages>>
calls == <<captures, saves, alerts>>
vars == <<url, loading, results, error, inflight, st, threw,
          captures, saves, alerts,
          cur, pc, canvas, imgHeight, heightLeft, position, pages>>

\* pageHeight over the denominator of canvas c
PageHeightOf(c) == pageHeight * c.width
\* imgHeight over the denominator of canvas c (line 82)
ImgHeightOf(c) == c.height * imgWidth

Init ==
    /\ url = ""
    /\ loading = FALSE
    /\ results = Null
    /\ error = Null
    /\ inflight = 0
    /\ st = [e \in Exports |-> "idle"]
    /\ threw = [e \in Exports |-> "none"]
    /\ captures = [e \in Exports |-> 0]
    /\ saves = [e \in Exports |-> 0]
    /\ alerts = [e \in Exports |-> 0]
    /\ cur = 0
    /\ pc = "idle"
    /\ canvas = NoCanvas
    /\ imgHeight = 0
    /\ heightLeft = 0
    /\ position = 0
    /\ pages = <<>>

\* ------------------------------------------------------------- rendering
\* <button onClick={handleAnalyze} disabled={loading}>
AnalyzeDisabled == loading
\* {results && ( ... <button onClick={handleDownloadPDF}> ... )}
DownloadEnabled == results # Null

\* ------------------------------------------------------------ the form
SetUrl(u) ==
    /\ cur = 0
    /\ u # url
    /\ url' = u
    /\ UNCHANGED <<loading, results, error, inflight, st, threw, calls, frame>>

\* a handler whose validation branch does not return
HandleAnalyzeNoReturn ==
    /\ cur = 0
    /\ ~AnalyzeDisabled
    /\ inflight < 2
    /\ loading' = TRUE
    /\ error' = Null
    /\ inflight' = inflight + 1
    /\ UNCHANGED <<url, results, st, threw, calls, frame>>

\* handleAnalyze up to its await
HandleAnalyze ==
    /\ cur = 0
    /\ ~AnalyzeDisabled
    /\ IF url = ""
         THEN /\ error' = ValidationMsg
              /\ UNCHANGED <<loading, inflight>>
         ELSE /\ loading' = TRUE
              /\ error' = Null
              /\ inflight' = inflight + 1
    /\ UNCHANGED <<url, results, st, threw, calls, frame>>

\* the awaited axios.post resolves: try body, then finally
AnalyzeResolve(d) ==
    /\ cur = 0
    /\ inflight > 0
    /\ results' = d
    /\ loading' = FALSE
    /\ inflight' = inflight - 1
    /\ UNCHANGED <<url, error, st, threw, calls, frame>>

\* a rejection handled without the finally block
AnalyzeRejectNoFinally ==
    /\ cur = 0
    /\ inflight > 0
    /\ error' = FailedMsg
    /\ inflight' = inflight - 1
    /\ UNCHANGED <<url, loading, results, st, threw, calls, frame>>

\* the awaited axios.post rejects: catch, then finally
AnalyzeReject ==
    /\ cur = 0
    /\ inflight > 0
    /\ error' = FailedMsg
    /\ loading' = FALSE
    /\ inflight' = inflight - 1
    /\ UNCHANGED <<url, results, st, threw, calls, frame>>

\* ----------------------------------------------------------- the export
NextExport == CHOOSE e \in Exports : st[e] = "idle" /\ \A f \in Exports : f < e => st[f] # "idle"

\* handleDownloadPDF: the click starts html2canvas and returns
HandleDownloadPDF ==
    /\ cur = 0
    /\ DownloadEnabled
    /\ \E e \in Exports : st[e] = "idle"
    /\ st' = [st EXCEPT ![NextExport] = "capturing"]
    /\ captures' = [captures EXCEPT ![NextExport] = @ + 1]
    /\ UNCHANGED <<ui, threw, saves, alerts, frame>>

\* html2canvas rejects
CaptureReject(e) ==
    /\ cur = 0
    /\ st[e] = "capturing"
    /\ st' = [st EXCEPT ![e] = "rejected"]
    /\ threw' = [threw EXCEPT ![e] = "capture"]
    /\ UNCHANGED <<ui, calls, frame>>

\* html2canvas resolves with canvas c: lines 71-84 of the .then callback
ThenBegin(e, c) ==
    /\ cur = 0
    /\ st[e] = "capturing"
    /\ st' = [st EXCEPT ![e] = "running"]
    /\ cur' = e
    /\ pc' = "first"
    /\ canvas' = c
    /\ imgHeight' = ImgHeightOf(c)
    /\ heightLeft' = ImgHeightOf(c)
    /\ position' = 0
    /\ pages' = <<>>
    /\ UNCHANGED <<ui, threw, calls>>

\* canvas.toDataURL or new jsPDF throws
ThenBeginThrows(e) ==
    /\ cur = 0
    /\ st[e] = "capturing"
    /\ st' = [st EXCEPT ![e] = "rejected"]
    /\ threw' = [threw EXCEPT ![e] = "assembly"]
    /\ UNCHANGED <<ui, calls, frame>>

\* lines 87-88
FirstPage ==
    /\ pc = "first"
    /\ pages' = Append(pages, position)
    /\ heightLeft' = heightLeft - PageHeightOf(canvas)
    /\ pc' = "loop"
    /\ UNCHANGED <<ui, st, threw, calls, cur, canvas, imgHeight, position>>

\* while (heightLeft >= 0)
LoopCond == heightLeft >= 0

\* a loop that never moves the image: every page is drawn at the first position
NewPositionTop == position

\* position = heightLeft - imgHeight
NewPosition == heightLeft - imgHeight

\* a decrement of half a page
DecrementHalf == heightLeft - (PageHeightOf(canvas) \div 2)

\* heightLeft -= pageHeight
Decrement == heightLeft - PageHeightOf(canvas)

\* one iteration of the loop, lines 91-96
LoopIter ==
    /\ pc = "loop"
    /\ LoopCond
    /\ position' = NewPosition
    /\ pages' = Append(pages, NewPosition)
    /\ heightLeft' = Decrement
    /\ UNCHANGED <<ui, st, threw, calls, cur, pc, canvas, imgHeight>>

\* a save that does not wait for the loop
SaveReadyEarly == pc = "loop"

\* the loop has been left and line 99 is next
SaveReady == pc = "loop" /\ ~LoopCond

\* pdf.save returns
Save ==
    /\ SaveReady
    /\ saves' = [saves EXCEPT ![cur] = @ + 1]
    /\ pc' = "saved"
    /\ UNCHANGED <<ui, st, threw, captures, alerts, cur, canvas, imgHeight,
                   heightLeft, position, pages>>

\* the callback returns and the promise chain ends
ThenReturn ==
    /\ pc = "saved"
    /\ st' = [st EXCEPT ![cur] = "done"]
    /\ cur' = 0
    /\ pc' = "idle"
    /\ canvas' = NoCanvas
    /\ imgHeight' = 0
    /\ heightLeft' = 0
    /\ position' = 0
    /\ pages' = <<>>
    /\ UNCHANGED <<ui, threw, calls>>

\* pdf.addImage or pdf.addPage throws: the callback is left for .catch
AssemblyThrows ==
    /\ \/ pc = "first"
       \/ pc = "loop" /\ LoopCond
    /\ st' = [st EXCEPT ![cur] = "rejected"]
    /\ threw' = [threw EXCEPT ![cur] = "assembly"]
    /\ cur' = 0
    /\ pc' = "idle"
    /\ canvas' = NoCanvas
    /\ imgHeight' = 0
    /\ heightLeft' = 0
    /\ position' = 0
    /\ pages' = <<>>
    /\ UNCHANGED <<ui, calls>>

\* pdf.save is called and throws
SaveThrows ==
    /\ SaveReady
    /\ saves' = [saves EXCEPT ![cur] = @ + 1]
    /\ st' = [st EXCEPT ![cur] = "rejected"]
    /\ threw' = [threw EXCEPT ![cur] = "save"]
    /\ cur' = 0
    /\ pc' = "idle"
    /\ canvas' = NoCanvas
    /\ imgHeight' = 0
    /\ heightLeft' = 0
    /\ position' = 0
    /\ pages' = <<>>
    /\ UNCHANGED <<ui, captures, alerts>>

\* a catch handler that alerts and starts the capture again
CatchRetry(e) ==
    /\ cur = 0
    /\ st[e] = "rejected"
    /\ alerts[e] < 2
    /\ alerts' = [alerts EXCEPT ![e] = @ + 1]
    /\ captures' = [captures EXCEPT ![e] = @ + 1]
    /\ st' = [st EXCEPT ![e] = "capturing"]
    /\ UNCHANGED <<ui, threw, saves, frame>>

\* .catch: console.error and alert, lines 100-103
Catch(e) ==
    /\ cur = 0
    /\ st[e] = "rejected"
    /\ alerts' = [alerts EXCEPT ![e] = @ + 1]
    /\ st' = [st EXCEPT ![e] = "failed"]
    /\ UNCHANGED <<ui, threw, captures, saves, frame>>

Next ==
    \/ \E u \in Urls : SetUrl(u)
    \/ HandleAnalyze
    \/ \E d \in Responses : AnalyzeResolve(d)
    \/ AnalyzeReject
    \/ HandleDownloadPDF
    \/ \E e \in Exports : CaptureReject(e)
    \/ \E e \in Exports, w \in CanvasWidths, h \in CanvasHeights :
          ThenBegin(e, [width |-> w, height |-> h])
    \/ \E e \in Exports : ThenBeginThrows(e)
    \/ FirstPage
    \/ LoopIter
    \/ Save
    \/ ThenReturn
    \/ AssemblyThrows
    \/ SaveThrows
    \/ \E e \in Exports : Catch(e)

Spec == Init /\ [][Next]_vars

\* a callback that has started runs on: each of its steps is taken while enabled
CallbackStep == FirstPage \/ LoopIter \/ Save \/ ThenReturn \/ AssemblyThrows \/ SaveThrows

FairSpec == Spec /\ WF_vars(CallbackStep)

\* ------------------------------------------------------------ properties
PageHeightN == PageHeightOf(canvas)
Ceil(a, b) == (a + b - 1) \div b
Min(a, b) == IF a <= b THEN a ELSE b

\* the slice of the image that page k shows: the image is drawn at y = pages[k],
\* the page is pageHeight tall and the image imgHeight tall
BandStart(k) == 0 - pages[k]
BandEnd(k) == Min(BandStart(k) + PageHeightN, imgHeight)

\* C1: a successful export of an image of height h >= 1 has exactly
\* ceil(h / pageHeight) pages, so an exact multiple gets no trailing page.
C1_PageCountIsCeil ==
    (pc = "saved" /\ canvas.height >= 1) => Len(pages) = Ceil(imgHeight, PageHeightN)

\* C2: the bands of the emitted pages start at 0, each starts where the one
\* before ends and strictly after that one's start, none leaves [0, h], and
\* once the export has saved the last band ends at h.
C2_BandsContiguous ==
    cur # 0 =>
        /\ \A k \in 1..Len(pages) :
              /\ 0 <= BandStart(k)
              /\ BandStart(k) <= BandEnd(k)
              /\ BandEnd(k) <= imgHeight
              /\ BandStart(k) = (k - 1) * PageHeightN
        /\ Len(pages) >= 1 => BandStart(1) = 0
        /\ \A k \in 2..Len(pages) :
              /\ BandStart(k) = BandEnd(k - 1)
              /\ BandStart(k) > BandStart(k - 1)
        /\ pc = "saved" => BandEnd(Len(pages)) = imgHeight

C2_Witness ==
    /\ pc = "saved"
    /\ Len(pages) >= 3
    /\ imgHeight % PageHeightN # 0

\* C3: an export whose captured image has height 0 emits no page and never
\* calls pdf.save.
C3_ZeroHeightFails ==
    (cur # 0 /\ canvas.height = 0) => (pages = <<>> /\ saves[cur] = 0)

\* C4: an export that failed in html2canvas or while the document was being
\* assembled never called pdf.save; every failed export raised exactly one
\* alert and made exactly one capture (nothing was retried).
C4_FailureAborts ==
    \A e \in Exports :
        /\ st[e] = "failed" =>
              /\ alerts[e] = 1
              /\ captures[e] = 1
              /\ threw[e] \in {"capture", "assembly"} => saves[e] = 0
        /\ st[e] = "rejected" => alerts[e] = 0 /\ captures[e] = 1

C4_Witness ==
    /\ st[1] = "failed" /\ threw[1] = "capture"
    /\ st[2] = "failed" /\ threw[2] = "assembly"

\* C5: at most one export is between the start of its capture and its
\* pdf.save or failure.
InFlight == {e \in Exports : st[e] \in {"capturing", "running"}}

C5_SingleExport == Cardinality(InFlight) <= 1

\* C6: pdf.save is called at most once per export, by the export that made
\* exactly one capture, only when the loop is over and every page has been
\* added, and no page is added once it has been called.
C6_SaveAfterPages ==
    [][ /\ \A e \in Exports :
              saves'[e] # saves[e] =>
                  /\ cur = e
                  /\ saves[e] = 0
                  /\ saves'[e] = 1
                  /\ captures[e] = 1
                  /\ heightLeft < 0
                  /\ Len(pages) = (imgHeight \div PageHeightN) + 1
        /\ pc = "saved" => (saves' = saves /\ pages' \in {pages, <<>>})
        /\ \A e \in Exports : captures'[e] # captures[e] => captures[e] = 0
      ]_vars

C6_Witness ==
    /\ pc = "saved"
    /\ Len(pages) >= 2
    /\ saves[cur] = 1

\* C7: at most one analysis request is outstanding, and while one is
\* outstanding no export can be started from the view.
C7_SingleFlight ==
    /\ inflight <= 1
    /\ loading => ~DownloadEnabled

\* C8: a failed analysis request sets the generic message, leaves results
\* alone, issues no request and ends with loading false and the Analyze
\* control enabled; a successful one ends with loading false as well.
C8_RequestSettles ==
    [][ /\ AnalyzeReject =>
              /\ error' = FailedMsg
              /\ results' = results
              /\ inflight' = 0
              /\ loading' = FALSE
              /\ ~AnalyzeDisabled'
        /\ (\E d \in Responses : AnalyzeResolve(d)) =>
              /\ loading' = FALSE
              /\ inflight' = 0
              /\ ~AnalyzeDisabled'
      ]_vars

C8_Witness ==
    /\ error = FailedMsg
    /\ results # Null
    /\ loading = FALSE
    /\ inflight = 0

\* C9: handleAnalyze with an empty url sets the validation message and
\* issues no request; loading and results stay as they were.
C9_EmptyUrlReturns ==
    [][ (HandleAnalyze /\ url = "") =>
            /\ error' = ValidationMsg
            /\ inflight' = inflight
            /\ loading' = loading
            /\ results' = results
      ]_vars

C9_Witness ==
    /\ error = ValidationMsg
    /\ url = ""
    /\ results # Null
    /\ inflight = 0

\* C10: the loop ends: every iteration lowers heightLeft by pageHeight and
\* adds one page, an export never has more than floor(h / pageHeight) + 1
\* pages, and a callback that has begun reaches pdf.save unless a call of the
\* document assembly throws.
C10_LoopTerminates ==
    /\ [](cur # 0 => Len(pages) <= (imgHeight \div PageHeightN) + 1)
    /\ [][ (pc = "loop" /\ pc' = "loop") =>
               /\ heightLeft' = heightLeft - PageHeightN
               /\ heightLeft' < heightLeft
               /\ Len(pages') = Len(pages) + 1
         ]_vars
    /\ \A e \in Exports :
          (cur = e /\ pc \in {"first", "loop"}) ~> (saves[e] = 1 \/ threw[e] = "assembly")

C10_Witness ==
    /\ pc = "saved"
    /\ Len(pages) >= 4
    /\ canvas.height > 0
====
